---- MODULE Spec2Model ----
(***************************************************************************)
(* Model of the sitemap generator of src/app.py: the URL normalizer, the   *)
(* line cleaner and the "Generate Sitemap" button handler (parse, collect  *)
(* existing entries, reconcile additions, serialize, report, download).    *)
(*                                                                         *)
(* Strings are sequences of one-character strings.  An optional value      *)
(* (Python None or a string) is a sequence of length 0 or 1: <<>> is None  *)
(* and <<t>> is the string t.                                              *)
(***************************************************************************)
EXTENDS Integers, Sequences, FiniteSets, TLC

VARIABLES
    \* widgets (inputs of one script run)
    uploaded_file, exclude_input, add_input, add_date,
    normalize_trailing_slash, lower_case_urls, dedupe_existing,
    \* locals of the button handler
    pc, root, exclude_urls, add_urls, add_lastmod_str,
    existing_urls, seen, idx,
    existing_set, duplicates, final_urls, new_seen, aidx,
    output_io, report, ui,
    \* a direct use of normalize_url: the argument, the result, the result of
    \* a second application
    nu, npc, n1, n2

widgets == <<uploaded_file, exclude_input, add_input, add_date,
             normalize_trailing_slash, lower_case_urls, dedupe_existing>>

locals == <<pc, root, exclude_urls, add_urls, add_lastmod_str,
            existing_urls, seen, idx,
            existing_set, duplicates, final_urls, new_seen, aidx,
            output_io, report, ui>>

normvars == <<nu, npc, n1, n2>>

vars == <<widgets, locals, normvars>>

----------------------------------------------------------------------------
(* Bounds *)

\* longest string handed directly to normalize_url
MaxLen == 6

\* most url elements in an uploaded document
MaxUrls == 2

\* most lines typed into the "URLs to ADD" box
MaxAdd == 2

----------------------------------------------------------------------------
(* Python string primitives *)

Whitespace == {" ", "\t", "\n", "\r"}

None == <<>>

Some(t) == <<t>>

Range(s) == {s[i] : i \in DOMAIN s}

\* str.strip()
strip(s) ==
    LET keep == {i \in DOMAIN s : s[i] \notin Whitespace}
    IN  IF keep = {} THEN <<>>
        ELSE LET first == CHOOSE i \in keep : \A j \in keep : i <= j
                 last  == CHOOSE i \in keep : \A j \in keep : j <= i
             IN  SubSeq(s, first, last)

LowerChar(c) ==
    CASE c = "A" -> "a"
      [] c = "B" -> "b"
      [] OTHER   -> c

\* str.lower()
lower(s) == [i \in DOMAIN s |-> LowerChar(s[i])]

\* str.endswith("/")
endswith_slash(s) == Len(s) > 0 /\ s[Len(s)] = "/"

\* "://" in s
has_scheme_sep(s) ==
    \E i \in 1..(Len(s) - 2) : s[i] = ":" /\ s[i + 1] = "/" /\ s[i + 2] = "/"

\* s.count("/")
count_slash(s) == Cardinality({i \in DOMAIN s : s[i] = "/"})

\* str.split("\n")
RECURSIVE split(_)
split(s) ==
    LET nl == {i \in DOMAIN s : s[i] = "\n"}
    IN  IF nl = {} THEN <<s>>
        ELSE LET i == CHOOSE k \in nl : \A j \in nl : k <= j
             IN  <<SubSeq(s, 1, i - 1)>> \o split(SubSeq(s, i + 1, Len(s)))

CharCode(c) ==
    CASE c = "\t" -> 9
      [] c = "\n" -> 10
      [] c = "\r" -> 13
      [] c = " " -> 32
      [] c = "-" -> 45
      [] c = "." -> 46
      [] c = "/" -> 47
      [] c = "0" -> 48
      [] c = "1" -> 49
      [] c = "2" -> 50
      [] c = "5" -> 53
      [] c = "6" -> 54
      [] c = ":" -> 58
      [] c = "A" -> 65
      [] c = "B" -> 66
      [] c = "a" -> 97
      [] c = "b" -> 98
      [] OTHER -> 120

\* s < t for Python strings (code point order)
RECURSIVE StrLess(_, _)
StrLess(s, t) ==
    IF t = <<>> THEN FALSE
    ELSE IF s = <<>> THEN TRUE
    ELSE IF CharCode(s[1]) # CharCode(t[1]) THEN CharCode(s[1]) < CharCode(t[1])
    ELSE StrLess(Tail(s), Tail(t))

\* sorted(S) for a set of strings
RECURSIVE sorted(_)
sorted(S) ==
    IF S = {} THEN <<>>
    ELSE LET m == CHOOSE x \in S : \A y \in S \ {x} : StrLess(x, y)
         IN  <<m>> \o sorted(S \ {m})

DigitChar == <<"0", "1", "2", "3", "4", "5", "6", "7", "8", "9">>

Pad2(n) == <<DigitChar[(n \div 10) + 1], DigitChar[(n % 10) + 1]>>

\* date.strftime("%Y-%m-%d")
strftime(d) ==
    Pad2(d.year \div 100) \o Pad2(d.year % 100) \o <<"-">> \o Pad2(d.month)
        \o <<"-">> \o Pad2(d.day)

----------------------------------------------------------------------------
(* Helper functions of the script *)

\* the trailing slash is removed (lines 100-102)
TrimSlashDropsEndswith(u) ==
    normalize_trailing_slash /\ Len(u) > 1
        /\ has_scheme_sep(u) /\ count_slash(u) > 2

TrimSlash(u) ==
    normalize_trailing_slash /\ Len(u) > 1
        /\ endswith_slash(u) /\ has_scheme_sep(u) /\ count_slash(u) > 2

normalize_url(u) ==
    LET u1 == strip(u)
        u2 == IF lower_case_urls THEN lower(u1) ELSE u1
    IN  IF TrimSlash(u2) THEN SubSeq(u2, 1, Len(u2) - 1) ELSE u2

clean_lines(raw) ==
    IF raw = <<>> THEN <<>>
    ELSE LET lines == SelectSeq(split(strip(raw)), LAMBDA l : strip(l) # <<>>)
         IN  [i \in DOMAIN lines |-> normalize_url(lines[i])]

----------------------------------------------------------------------------
(* Inputs *)

\* characters of the strings handed directly to normalize_url
Alphabet == {"A", "/", ":", " "}

BoundedStrings == UNION {[1..n -> Alphabet] : n \in 0..MaxLen}

RootUrl == <<"h","t","t","p","s",":","/","/","e","x",".","c","o","m","/">>

PageUrl == RootUrl \o <<"p","a","g","e","/">>

PageUrlTrimmed == RootUrl \o <<"p","a","g","e">>

NormInputs == BoundedStrings \cup {RootUrl, PageUrl}

----------------------------------------------------------------------------
(* Direct use of normalize_url *)

InitNorm ==
    /\ nu \in NormInputs
    /\ lower_case_urls \in BOOLEAN
    /\ normalize_trailing_slash \in BOOLEAN
    /\ npc = "start"
    /\ n1 = <<>>
    /\ n2 = <<>>
    /\ uploaded_file = [kind |-> "none", children |-> <<>>]
    /\ exclude_input = <<>>
    /\ add_input = <<>>
    /\ add_date = [year |-> 2025, month |-> 6, day |-> 1]
    /\ dedupe_existing = TRUE
    /\ pc = "off"
    /\ root = <<>>
    /\ exclude_urls = {}
    /\ add_urls = <<>>
    /\ add_lastmod_str = <<>>
    /\ existing_urls = <<>>
    /\ seen = {}
    /\ idx = 1
    /\ existing_set = {}
    /\ duplicates = <<>>
    /\ final_urls = <<>>
    /\ new_seen = {}
    /\ aidx = 1
    /\ output_io = <<>>
    /\ report = [total |-> 0, duplicate_count |-> 0, duplicate_list |-> <<>>]
    /\ ui = <<>>

NormalizeOnce ==
    /\ npc = "start"
    /\ n1' = normalize_url(nu)
    /\ npc' = "once"
    /\ UNCHANGED <<widgets, locals, nu, n2>>

NormalizeTwice ==
    /\ npc = "once"
    /\ n2' = normalize_url(n1)
    /\ npc' = "twice"
    /\ UNCHANGED <<widgets, locals, nu, n1>>

NextNorm == NormalizeOnce \/ NormalizeTwice

SpecNorm == InitNorm /\ [][NextNorm]_vars

----------------------------------------------------------------------------
(* The uploaded document and the text boxes *)

UrlA == <<":", "/", "/", "a">>

UrlASlashUpper == <<":", "/", "/", "A", "/">>

NsUrl == "{http://www.sitemaps.org/schemas/sitemap/0.9}url"

\* url elements a document is built from: tag, text of the ns:loc child and
\* of the ns:lastmod child (None: no such child; Some(<<>>): no text)
UrlElems ==
    { [tag |-> NsUrl, loc |-> Some(UrlA),           lastmod |-> Some(<<" ", "1">>)],
      [tag |-> NsUrl, loc |-> Some(UrlASlashUpper), lastmod |-> None],
      [tag |-> NsUrl, loc |-> Some(<<" ">>),        lastmod |-> Some(<<" ">>)],
      [tag |-> NsUrl, loc |-> Some(<<>>),           lastmod |-> Some(<<"2">>)],
      [tag |-> "url", loc |-> Some(UrlA),           lastmod |-> Some(<<"2">>)] }

Documents ==
    {[kind |-> "xml", children |-> c] :
        c \in UNION {[1..n -> UrlElems] : n \in 0..MaxUrls}}

\* no upload; not well-formed; declared in an encoding expat does not support
NoDocument == [kind |-> "none", children |-> <<>>]

Malformed == [kind |-> "malformed", children |-> <<>>]

BadEncoding == [kind |-> "bad_encoding", children |-> <<>>]

Uploads == Documents \cup {NoDocument, Malformed, BadEncoding}

ExcludeInputs == {<<>>, <<"\n", " ">> \o UrlA \o <<" ", "\n">>}

AddLines == {UrlA, UrlASlashUpper, <<" ">>}

RECURSIVE join(_)
join(ls) ==
    IF ls = <<>> THEN <<>>
    ELSE IF Len(ls) = 1 THEN ls[1]
    ELSE ls[1] \o <<"\n">> \o join(Tail(ls))

AddInputs == {join(ls) : ls \in UNION {[1..n -> AddLines] : n \in 0..MaxAdd}}

AddDates == {[year |-> 2025, month |-> 6, day |-> 1],
             [year |-> 2024, month |-> 12, day |-> 25]}

----------------------------------------------------------------------------
(* The "Generate Sitemap" button handler *)

Init ==
    /\ uploaded_file \in Uploads
    /\ exclude_input \in ExcludeInputs
    /\ add_input \in AddInputs
    /\ add_date \in AddDates
    /\ normalize_trailing_slash \in BOOLEAN
    /\ lower_case_urls \in BOOLEAN
    /\ dedupe_existing \in BOOLEAN
    /\ pc = "button"
    /\ root = <<>>
    /\ exclude_urls = {}
    /\ add_urls = <<>>
    /\ add_lastmod_str = <<>>
    /\ existing_urls = <<>>
    /\ seen = {}
    /\ idx = 1
    /\ existing_set = {}
    /\ duplicates = <<>>
    /\ final_urls = <<>>
    /\ new_seen = {}
    /\ aidx = 1
    /\ output_io = <<>>
    /\ report = [total |-> 0, duplicate_count |-> 0, duplicate_list |-> <<>>]
    /\ ui = <<>>
    /\ nu = <<>>
    /\ npc = "off"
    /\ n1 = <<>>
    /\ n2 = <<>>

\* uploaded_file is None (line 115)
MissingInputNever == FALSE

MissingInput == uploaded_file.kind = "none"

\* what ET.parse(uploaded_file) does (line 124)
ParseOutcome ==
    CASE uploaded_file.kind = "xml"          -> "ok"
      [] uploaded_file.kind = "malformed"    -> "ParseError"
      [] uploaded_file.kind = "bad_encoding" -> "ValueError"
      [] OTHER                               -> "TypeError"

\* root.findall('ns:url', ns) (line 135)
findall_url(r) == SelectSeq(r, LAMBDA e : e.tag = NsUrl)

\* loc_elem is None or not loc_elem.text (line 137)
LocMissing(e) == e.loc = None \/ e.loc[1] = <<>>

\* loc_text in exclude_urls (line 143)
ExcludedNever(loc_text) == FALSE

Excluded(loc_text) == loc_text \in exclude_urls

\* lastmod of an existing entry (line 148)
LastmodConfigured(e) == Some(add_lastmod_str)

Lastmod(e) ==
    IF e.lastmod # None /\ e.lastmod[1] # <<>> THEN Some(strip(e.lastmod[1]))
    ELSE None

\* a repeat inside the uploaded sitemap that is dropped (lines 150-151)
SelfDuplicateNotTracked(loc_text) == dedupe_existing /\ loc_text \in {}

SelfDuplicate(loc_text) == dedupe_existing /\ loc_text \in seen

\* an addition that is reported and left out (line 169)
RejectedExistingOnly(new_url) == new_url \in existing_set

Rejected(new_url) == new_url \in existing_set \/ new_url \in new_seen

\* the button is pressed (lines 114-117)
Click ==
    /\ pc = "button"
    /\ IF MissingInput
       THEN /\ ui' = Append(ui, "warning_missing_upload")
            /\ pc' = "stopped"
       ELSE /\ ui' = ui
            /\ pc' = "parse"
    /\ UNCHANGED <<widgets, normvars, root, exclude_urls, add_urls,
                   add_lastmod_str, existing_urls, seen, idx, existing_set,
                   duplicates, final_urls, new_seen, aidx, output_io, report>>

\* parse the upload and prepare the inputs (lines 121-134)
Parse ==
    /\ pc = "parse"
    /\ ParseOutcome = "ok"
    /\ root' = uploaded_file.children
    /\ exclude_urls' = Range(clean_lines(exclude_input))
    /\ add_urls' = clean_lines(add_input)
    /\ add_lastmod_str' = strftime(add_date)
    /\ existing_urls' = <<>>
    /\ seen' = {}
    /\ idx' = 1
    /\ pc' = "existing"
    /\ UNCHANGED <<widgets, normvars, existing_set, duplicates, final_urls,
                   new_seen, aidx, output_io, report, ui>>

\* except ET.ParseError (lines 211-213)
ParseErrorHandler ==
    /\ pc = "parse"
    /\ ParseOutcome = "ParseError"
    /\ ui' = ui \o <<"error_parse", "exception">>
    /\ pc' = "failed"
    /\ UNCHANGED <<widgets, normvars, root, exclude_urls, add_urls,
                   add_lastmod_str, existing_urls, seen, idx, existing_set,
                   duplicates, final_urls, new_seen, aidx, output_io, report>>

\* except Exception (lines 214-216)
ExceptionHandler ==
    /\ pc = "parse"
    /\ ParseOutcome \notin {"ok", "ParseError"}
    /\ ui' = ui \o <<"error_unexpected", "exception">>
    /\ pc' = "failed"
    /\ UNCHANGED <<widgets, normvars, root, exclude_urls, add_urls,
                   add_lastmod_str, existing_urls, seen, idx, existing_set,
                   duplicates, final_urls, new_seen, aidx, output_io, report>>

\* one iteration of the loop over the url elements (lines 135-156)
ExistingStep ==
    /\ pc = "existing"
    /\ idx <= Len(findall_url(root))
    /\ LET url_elem == findall_url(root)[idx]
           loc_text == normalize_url(url_elem.loc[1])
       IN  IF LocMissing(url_elem) THEN
               UNCHANGED <<existing_urls, seen>>
           ELSE IF Excluded(loc_text) THEN
               UNCHANGED <<existing_urls, seen>>
           ELSE IF SelfDuplicate(loc_text) THEN
               UNCHANGED <<existing_urls, seen>>
           ELSE
               /\ seen' = IF dedupe_existing THEN seen \cup {loc_text} ELSE seen
               /\ existing_urls' =
                      Append(existing_urls, <<loc_text, Lastmod(url_elem)>>)
    /\ idx' = idx + 1
    /\ UNCHANGED <<widgets, normvars, pc, root, exclude_urls, add_urls,
                   add_lastmod_str, existing_set, duplicates, final_urls,
                   new_seen, aidx, output_io, report, ui>>

\* the loop is over: set up the additions pass (lines 159-165)
StartAdditions ==
    /\ pc = "existing"
    /\ idx > Len(findall_url(root))
    /\ existing_set' = {existing_urls[i][1] : i \in DOMAIN existing_urls}
    /\ duplicates' = <<>>
    /\ final_urls' = existing_urls
    /\ new_seen' = {}
    /\ aidx' = 1
    /\ pc' = "additions"
    /\ UNCHANGED <<widgets, normvars, root, exclude_urls, add_urls,
                   add_lastmod_str, existing_urls, seen, idx, output_io,
                   report, ui>>

\* one iteration of the loop over the additions (lines 166-173)
AdditionStepNoContinue ==
    /\ pc = "additions"
    /\ aidx <= Len(add_urls)
    /\ LET new_url == add_urls[aidx]
       IN  IF new_url = <<>> THEN
               UNCHANGED <<duplicates, final_urls, new_seen>>
           ELSE
               /\ duplicates' = IF Rejected(new_url)
                                THEN Append(duplicates, new_url) ELSE duplicates
               /\ final_urls' = Append(final_urls, <<new_url, Some(add_lastmod_str)>>)
               /\ new_seen' = new_seen \cup {new_url}
    /\ aidx' = aidx + 1
    /\ UNCHANGED <<widgets, normvars, pc, root, exclude_urls, add_urls,
                   add_lastmod_str, existing_urls, seen, idx, existing_set,
                   output_io, report, ui>>

AdditionStep ==
    /\ pc = "additions"
    /\ aidx <= Len(add_urls)
    /\ LET new_url == add_urls[aidx]
       IN  IF new_url = <<>> THEN
               UNCHANGED <<duplicates, final_urls, new_seen>>
           ELSE IF Rejected(new_url) THEN
               /\ duplicates' = Append(duplicates, new_url)
               /\ UNCHANGED <<final_urls, new_seen>>
           ELSE
               /\ final_urls' = Append(final_urls, <<new_url, Some(add_lastmod_str)>>)
               /\ new_seen' = new_seen \cup {new_url}
               /\ UNCHANGED duplicates
    /\ aidx' = aidx + 1
    /\ UNCHANGED <<widgets, normvars, pc, root, exclude_urls, add_urls,
                   add_lastmod_str, existing_urls, seen, idx, existing_set,
                   output_io, report, ui>>

\* one url block of the new sitemap; falsy lastmod is left out (lines 177-181)
UrlBlock(entry) ==
    [loc |-> entry[1],
     lastmod |-> IF entry[2] # None /\ entry[2][1] # <<>> THEN entry[2] ELSE None]

\* build the new tree and write it to memory (lines 176-188)
Serialize ==
    /\ pc = "additions"
    /\ aidx > Len(add_urls)
    /\ output_io' = [i \in DOMAIN final_urls |-> UrlBlock(final_urls[i])]
    /\ pc' = "report"
    /\ UNCHANGED <<widgets, normvars, root, exclude_urls, add_urls,
                   add_lastmod_str, existing_urls, seen, idx, existing_set,
                   duplicates, final_urls, new_seen, aidx, report, ui>>

\* success message, counts, duplicate table and preview (lines 191-201)
Report ==
    /\ pc = "report"
    /\ report' = [total |-> Len(final_urls),
                  duplicate_count |-> Len(duplicates),
                  duplicate_list |-> sorted(Range(duplicates))]
    /\ ui' = ui \o <<"success", "total">>
                \o (IF duplicates # <<>>
                    THEN <<"warning_duplicates", "duplicate_table">> ELSE <<>>)
                \o <<"preview">>
    /\ pc' = "download"
    /\ UNCHANGED <<widgets, normvars, root, exclude_urls, add_urls,
                   add_lastmod_str, existing_urls, seen, idx, existing_set,
                   duplicates, final_urls, new_seen, aidx, output_io>>

\* the download button for output_io (lines 204-209)
Download ==
    /\ pc = "download"
    /\ ui' = Append(ui, "download")
    /\ pc' = "done"
    /\ UNCHANGED <<widgets, normvars, root, exclude_urls, add_urls,
                   add_lastmod_str, existing_urls, seen, idx, existing_set,
                   duplicates, final_urls, new_seen, aidx, output_io, report>>

Next ==
    \/ Click
    \/ Parse
    \/ ParseErrorHandler
    \/ ExceptionHandler
    \/ ExistingStep
    \/ StartAdditions
    \/ AdditionStep
    \/ Serialize
    \/ Report
    \/ Download

Spec == Init /\ [][Next]_vars

----------------------------------------------------------------------------
(* Properties *)

\* a successful run has ended: final_urls, duplicates, the written document
\* and the report are the run's result
Reconciled == pc = "done"

Locs(s) == {s[i][1] : i \in DOMAIN s}

Count(s, x) == Cardinality({i \in DOMAIN s : s[i] = x})

Has(msg) == \E i \in DOMAIN ui : ui[i] = msg

\* the entries of final_urls appended by the additions pass
AddedPart == SubSeq(final_urls, Len(existing_urls) + 1, Len(final_urls))

AddedLocs == [i \in DOMAIN AddedPart |-> AddedPart[i][1]]

\* the uploaded document, as written by its author
Doc == uploaded_file.children

\* a url element of the sitemap namespace with a loc that has text
Present(e) == e.tag = NsUrl /\ e.loc # None /\ e.loc[1] # <<>>

\* the lastmod text of a source element, character for character
SourceLastmodExact(e) ==
    IF e.lastmod = None \/ e.lastmod[1] = <<>> THEN None ELSE e.lastmod

\* the lastmod text of a source element without surrounding whitespace
SourceLastmodTrimmed(e) ==
    IF e.lastmod = None \/ e.lastmod[1] = <<>> THEN None
    ELSE Some(strip(e.lastmod[1]))

(* C1 *)
\* C1 as stated: after a successful reconciliation no two entries of
\* final_urls share a location, whatever the configuration.
C1_Original ==
    Reconciled =>
        \A i, j \in DOMAIN final_urls :
            i < j => final_urls[i][1] # final_urls[j][1]

\* C1 amended: two entries of final_urls share a location only when
\* dedupe_existing is off and both come from the uploaded sitemap; with
\* dedupe_existing on all locations are pairwise distinct, and accepted
\* additions never repeat each other or an existing entry.
C1_Amended ==
    Reconciled =>
        \A i, j \in DOMAIN final_urls :
            (i < j /\ final_urls[i][1] = final_urls[j][1])
                => (~dedupe_existing /\ j <= Len(existing_urls))

C1_Witness ==
    /\ pc = "done"
    /\ dedupe_existing
    /\ Len(Doc) = 2
    /\ Present(Doc[1])
    /\ Doc[1] = Doc[2]
    /\ Len(existing_urls) = 1
    /\ Len(final_urls) = 2
    /\ duplicates # <<>>

(* C2 *)
\* locations of uploaded entries that the exclusion set removes
ExcludedExisting ==
    {normalize_url(Doc[j].loc[1]) : j \in {k \in DOMAIN Doc : Present(Doc[k])}}
        \cap exclude_urls

\* C2 as stated: an excluded existing URL never appears in the final output,
\* even when the addition list names it too.
C2_Original ==
    Reconciled => \A x \in ExcludedExisting : x \notin Locs(final_urls)

\* C2 amended: an excluded existing URL never survives as an existing entry;
\* it is in the final output exactly when the addition list names it, and then
\* as one fresh addition carrying the configured date whose first occurrence
\* is not reported as a duplicate.
C2_Amended ==
    Reconciled =>
        \A x \in ExcludedExisting :
            /\ x \notin Locs(existing_urls)
            /\ x \in Locs(final_urls) <=> x \in Range(add_urls)
            /\ \A i \in DOMAIN final_urls :
                   final_urls[i][1] = x =>
                       /\ i > Len(existing_urls)
                       /\ final_urls[i][2] = Some(add_lastmod_str)
            /\ x \in Range(add_urls) =>
                   /\ Count(AddedLocs, x) = 1
                   /\ Count(duplicates, x) = Count(add_urls, x) - 1

C2_Witness ==
    /\ pc = "done"
    /\ \E x \in ExcludedExisting : x \in Locs(final_urls)

(* C3 *)
\* number of lines of a text box that hold a non-whitespace character: the
\* positions that are the first such character of their line
NonBlankLines(raw) ==
    LET breaks == {k \in DOMAIN raw : raw[k] = "\n"}
        LineStart(i) ==
            LET before == {k \in breaks : k < i}
            IN  IF before = {} THEN 1
                ELSE 1 + CHOOSE k \in before : \A l \in before : l <= k
    IN  Cardinality({i \in DOMAIN raw :
            /\ raw[i] \notin Whitespace
            /\ \A j \in LineStart(i)..(i - 1) : raw[j] \in Whitespace})

\* C3: every non-blank addition line is appended to final_urls or recorded in
\* duplicates, never both and never neither; the reported count is the number
\* of rejected lines, len(final) = len(existing) + len(additions) -
\* len(duplicates), and every URL of the displayed list is a rejected addition.
C3_Accounting ==
    Reconciled =>
        /\ Len(add_urls) = NonBlankLines(add_input)
        /\ \A x \in Range(add_urls) \cup Range(duplicates) \cup Range(AddedLocs) :
               Count(add_urls, x) = Count(AddedLocs, x) + Count(duplicates, x)
        /\ Len(final_urls) = Len(existing_urls) + Len(add_urls) - Len(duplicates)
        /\ report.total = Len(final_urls)
        /\ report.duplicate_count = Len(add_urls) - Len(AddedPart)
        /\ \A x \in Range(report.duplicate_list) :
               Count(add_urls, x) > Count(AddedLocs, x)
        /\ \A i, j \in DOMAIN report.duplicate_list :
               i < j => StrLess(report.duplicate_list[i], report.duplicate_list[j])

C3_Witness ==
    /\ pc = "done"
    /\ duplicates # <<>>
    /\ Len(final_urls) > Len(existing_urls)
    /\ Has("duplicate_table")

(* C4 *)
\* C4 as stated: normalize_url(normalize_url(u)) = normalize_url(u) for every
\* string and every combination of the options.
C4_Original == npc = "twice" => n2 = n1

\* C4 amended: a second normalization changes nothing when the trailing-slash
\* option is off, and when it is on for every string whose normalized form does
\* not end in a slash or in whitespace.
C4_Amended ==
    (/\ npc = "twice"
     /\ \/ ~normalize_trailing_slash
        \/ n1 = <<>>
        \/ n1[Len(n1)] \notin (Whitespace \cup {"/"}))
        => n2 = n1

C4_Witness ==
    /\ npc = "twice"
    /\ normalize_trailing_slash
    /\ lower_case_urls
    /\ Len(n1) > 0
    /\ Len(n1) < Len(strip(nu))
    /\ n1[Len(n1)] \notin (Whitespace \cup {"/"})
    /\ n2 = n1

(* C5 *)
\* C5: with the trailing-slash option on, the bare domain root
\* https://ex.com/ is left unchanged and https://ex.com/page/ becomes
\* https://ex.com/page.
C5_Claim ==
    (npc \in {"once", "twice"} /\ normalize_trailing_slash) =>
        /\ nu = RootUrl => n1 = RootUrl
        /\ nu = PageUrl => n1 = PageUrlTrimmed

(* C6 *)
\* C6: without an upload the pipeline does not run (only the warning is
\* shown); a run that reports an error shows no success message, report or
\* download and wrote no document; a download is offered only after the
\* success message and for the complete serialized result.
C6_Atomic ==
    /\ uploaded_file.kind = "none" =>
           /\ pc \in {"button", "stopped"}
           /\ ui \in {<<>>, <<"warning_missing_upload">>}
           /\ final_urls = <<>> /\ output_io = <<>> /\ exclude_urls = {}
    /\ (Has("error_parse") \/ Has("error_unexpected") \/ pc = "failed") =>
           /\ ~Has("success") /\ ~Has("total") /\ ~Has("preview")
           /\ ~Has("duplicate_table") /\ ~Has("download")
           /\ output_io = <<>>
           /\ pc = "failed"
           /\ Len(ui) = 2
    /\ uploaded_file.kind \in {"malformed", "bad_encoding"} =>
           ~Has("success") /\ ~Has("download")
    /\ Has("download") =>
           /\ Has("success") /\ Has("total") /\ Has("preview")
           /\ Len(output_io) = Len(final_urls)
           /\ report.total = Len(final_urls)
           /\ pc = "done"

C6_Witness ==
    /\ pc = "failed"
    /\ uploaded_file.kind = "malformed"
    /\ ui = <<"error_parse", "exception">>

(* C7 *)
\* C7: a well-formed document whose url elements are not in the sitemap
\* namespace ends the run in the ParseError outcome and no sitemap is produced.
C7_Claim ==
    (/\ pc \in {"done", "failed", "stopped"}
     /\ uploaded_file.kind = "xml"
     /\ Doc # <<>>
     /\ \A i \in DOMAIN Doc : Doc[i].tag # NsUrl)
        => (pc = "failed" /\ Has("error_parse") /\ ~Has("download"))

(* C8 *)
\* C8: every entry of the final result has a non-empty location.
C8_Claim ==
    Reconciled => \A i \in DOMAIN final_urls : final_urls[i][1] # <<>>

(* C9 *)
\* C9 as stated: every entry from the uploaded sitemap carries the lastmod text
\* of a source element with its location exactly as written (absent when the
\* source has none), and every added entry carries the configured date.
C9_Original ==
    Reconciled =>
        /\ \A i \in 1..Len(existing_urls) :
               \E j \in DOMAIN Doc :
                   /\ Present(Doc[j])
                   /\ normalize_url(Doc[j].loc[1]) = final_urls[i][1]
                   /\ final_urls[i][2] = SourceLastmodExact(Doc[j])
        /\ \A i \in (Len(existing_urls) + 1)..Len(final_urls) :
               final_urls[i][2] = Some(strftime(add_date))

\* C9 amended: every entry from the uploaded sitemap carries the lastmod text
\* of its source element with leading and trailing whitespace removed (absent
\* when the source has none; an all-whitespace lastmod becomes empty and is
\* left out of the written document), and every added entry carries the
\* configured date.
C9_Amended ==
    Reconciled =>
        /\ \A i \in 1..Len(existing_urls) :
               /\ \E j \in DOMAIN Doc :
                      /\ Present(Doc[j])
                      /\ normalize_url(Doc[j].loc[1]) = final_urls[i][1]
                      /\ final_urls[i][2] = SourceLastmodTrimmed(Doc[j])
               /\ output_io[i].lastmod =
                      (IF final_urls[i][2] = Some(<<>>) THEN None
                       ELSE final_urls[i][2])
        /\ \A i \in (Len(existing_urls) + 1)..Len(final_urls) :
               /\ final_urls[i][2] = Some(strftime(add_date))
               /\ output_io[i].lastmod = Some(strftime(add_date))

C9_Witness ==
    /\ pc = "done"
    /\ Len(existing_urls) > 0
    /\ final_urls[1][2] = Some(<<"1">>)
    /\ Len(final_urls) > Len(existing_urls)

(* C10 *)
NLoc(j) == normalize_url(Doc[j].loc[1])

\* element j survives exclusion
Survives(j) == Present(Doc[j]) /\ NLoc(j) \notin exclude_urls

\* element j is kept: it survives and, under dedupe_existing, no earlier
\* survivor has its location
Kept(j) ==
    /\ Survives(j)
    /\ dedupe_existing => \A i \in 1..(j - 1) : ~(Survives(i) /\ NLoc(i) = NLoc(j))

\* the kept elements in document order, as (location, trimmed lastmod)
ExpectedExisting ==
    LET KeptIdx == SelectSeq([j \in DOMAIN Doc |-> j], Kept)
    IN  [k \in DOMAIN KeptIdx |->
            <<NLoc(KeptIdx[k]), SourceLastmodTrimmed(Doc[KeptIdx[k]])>>]

\* addition i is accepted: not a kept existing location, first of its kind
AcceptedAt(kept, i) ==
    /\ add_urls[i] \notin kept
    /\ \A j \in 1..(i - 1) : add_urls[j] # add_urls[i]

\* C10: final_urls is the kept existing entries in document order followed by
\* the accepted additions in input order; duplicates holds exactly the rejected
\* additions; excluded locations never enter the dedupe tracking set.
C10_Sequence ==
    Reconciled =>
        LET ee == ExpectedExisting
            kept == Locs(ee)
            positions == [i \in DOMAIN add_urls |-> i]
            AccIdx == SelectSeq(positions, LAMBDA i : AcceptedAt(kept, i))
            RejIdx == SelectSeq(positions, LAMBDA i : ~AcceptedAt(kept, i))
        IN  /\ existing_urls = ee
            /\ final_urls = ee \o [k \in DOMAIN AccIdx |->
                                      <<add_urls[AccIdx[k]], Some(add_lastmod_str)>>]
            /\ duplicates = [k \in DOMAIN RejIdx |-> add_urls[RejIdx[k]]]
            /\ seen \cap exclude_urls = {}
            /\ dedupe_existing => seen = kept

C10_Witness ==
    /\ pc = "done"
    /\ dedupe_existing
    /\ exclude_urls # {}
    /\ Len(existing_urls) = 1
    /\ Cardinality({j \in DOMAIN Doc : Survives(j)}) = 2
    /\ Len(final_urls) = 2
    /\ Len(duplicates) = 1

====
